---------------------------- MODULE Spec2Model ----------------------------
(***************************************************************************)
(* Model of UMNOpenMotor's propellant combustion model                     *)
(* (src/motorlib/propellant.py) and of the marching-squares perimeter      *)
(* query (src/mathlib/_find_perimeter.py).                                 *)
(*                                                                         *)
(* Pressures are integers on a grid (one grid step stands for 50 Pa in the *)
(* worked examples: 0, 50, 100, 150 are 0, 1, 2, 3).  The comparisons,     *)
(* differences and absolute values of the code are exact on the grid.      *)
(***************************************************************************)
EXTENDS Integers, Sequences, FiniteSets, TLC

VARIABLES
    tabs,     \* Propellant.props['tabs']: the ordered list of PropellantTab
    image,    \* the raster handed to find_perimeter: [shape, pix]
    op,       \* the last operation called ("none" after construction)
    arg,      \* its argument (0 when it takes none)
    ret       \* what it returned or raised: [exc, val]

vars == <<tabs, image, op, arg, ret>>

----------------------------------------------------------------------------
(* Bounds of the model *)

\* longest tab list
MaxTabs == 2
\* tab pressure limits range over 0..MaxPressure (FloatProperty range [0, 7e7])
MaxPressure == 3
\* getPressureFromKn is queried with kn in 0..MaxKn
MaxKn == 2

Pressures == 0..MaxPressure
\* pressures that are queried: the tab range and one step beyond it
QueryPressures == 0..(MaxPressure + 1)

Abs(x) == IF x < 0 THEN -x ELSE x

\* closestPressure = 1e100: larger than every distance between two pressures
\* of the FloatProperty range [0, 7e7]; here the largest integer of the model.
closestPressureInit == 2147483647

\* Propellant.props['density']; with gamma, temp and molarMass it only scales
\* the pressure of getPressureFromKn.  The model keeps density / denom = 1.
density == 1

\* PropellantTab: the pressure window and the burn rate coefficient a.  The
\* exponent n is 0 (so 1 / (1 - n) = 1), and k, t, m are the same in every
\* tab: a tab is told from another by its window and its a.
PropellantTab(coefficients) ==
    [minPressure : Pressures, maxPressure : Pressures, a : coefficients]

\* The burn rate coefficients of the tabs.  Tab selection and validation never
\* read a, so the tabs they are checked on all have a = 1; the pressure of
\* getPressureFromKn is kn * a, so its tabs differ in a.
UnitCoefficient == {1}
BurnCoefficients == {1, 2}

Ok(v) == [exc |-> "none", val |-> v]
Raise(e) == [exc |-> e, val |-> 0]

----------------------------------------------------------------------------
(* Propellant.getCombustionProperties *)

\* CombustionLoop with the window test min <= pressure < max
RECURSIVE CombustionLoopHalfOpen(_, _, _, _, _)
CombustionLoopHalfOpen(ts, pressure, i, closest, closestPressure) ==
    IF i > Len(ts) THEN closest
    ELSE LET tab == ts[i]
             dMin == Abs(pressure - tab.minPressure)
             dMax == Abs(pressure - tab.maxPressure)
             c1 == IF dMin < closestPressure THEN i ELSE closest
             p1 == IF dMin < closestPressure THEN dMin ELSE closestPressure
             c2 == IF dMax < p1 THEN i ELSE c1
             p2 == IF dMax < p1 THEN dMax ELSE p1
         IN  IF tab.minPressure <= pressure /\ pressure < tab.maxPressure
             THEN i
             ELSE CombustionLoopHalfOpen(ts, pressure, i + 1, c2, p2)

\* CombustionLoop with <= for <: among equally near tabs the last one wins
RECURSIVE CombustionLoopLastWins(_, _, _, _, _)
CombustionLoopLastWins(ts, pressure, i, closest, closestPressure) ==
    IF i > Len(ts) THEN closest
    ELSE LET tab == ts[i]
             dMin == Abs(pressure - tab.minPressure)
             dMax == Abs(pressure - tab.maxPressure)
             c1 == IF dMin <= closestPressure THEN i ELSE closest
             p1 == IF dMin <= closestPressure THEN dMin ELSE closestPressure
             c2 == IF dMax <= p1 THEN i ELSE c1
             p2 == IF dMax <= p1 THEN dMax ELSE p1
         IN  IF tab.minPressure < pressure /\ pressure < tab.maxPressure
             THEN i
             ELSE CombustionLoopLastWins(ts, pressure, i + 1, c2, p2)

\* The loop body for tabs i..Len(ts); closest = 0 stands for the empty dict.
\* The result is the index of the tab whose properties are returned.
RECURSIVE CombustionLoop(_, _, _, _, _)
CombustionLoop(ts, pressure, i, closest, closestPressure) ==
    IF i > Len(ts) THEN closest
    ELSE LET tab == ts[i]
             dMin == Abs(pressure - tab.minPressure)
             dMax == Abs(pressure - tab.maxPressure)
             c1 == IF dMin < closestPressure THEN i ELSE closest
             p1 == IF dMin < closestPressure THEN dMin ELSE closestPressure
             c2 == IF dMax < p1 THEN i ELSE c1
             p2 == IF dMax < p1 THEN dMax ELSE p1
         IN  IF tab.minPressure < pressure /\ pressure < tab.maxPressure
             THEN i
             ELSE CombustionLoop(ts, pressure, i + 1, c2, p2)

\* The index of the tab getCombustionProperties reads a, n, k, t, m from
\* (0: none, closest is still {} and closest['a'] raises KeyError).
SelectedTab(ts, pressure) == CombustionLoop(ts, pressure, 1, 0, closestPressureInit)

getCombustionProperties(ts, pressure) ==
    LET s == SelectedTab(ts, pressure)
    IN  IF s = 0 THEN Raise("KeyError")
        ELSE Ok([tab |-> s, a |-> ts[s].a])

\* getBurnRate: ballA * pressure ** ballN with ballN = 0
getBurnRate(ts, pressure) ==
    LET r == getCombustionProperties(ts, pressure)
    IN  IF r.exc # "none" THEN r ELSE Ok([tab |-> r.val.tab, rate |-> r.val.a])

----------------------------------------------------------------------------
(* getMinimumValidPressure, getMaximumValidPressure *)

\* min([tab['minPressure'] for tab in tabs]); called on a tab list that is
\* not empty (from inside the loop over the tabs)
getMinimumValidPressure(ts) ==
    LET values == {ts[i].minPressure : i \in DOMAIN ts}
    IN  CHOOSE x \in values : \A y \in values : x <= y

\* max([tab['maxPressure'] for tab in tabs])
getMaximumValidPressure(ts) ==
    LET values == {ts[i].maxPressure : i \in DOMAIN ts}
    IN  CHOOSE x \in values : \A y \in values : x >= y

----------------------------------------------------------------------------
(* Propellant.getPressureFromKn *)

\* (num / denom) ** exponent with density / denom = 1 and exponent = 1
TabPressure(tab, kn) == kn * density * tab.a

\* InsertByKey of a sort that is not stable: x goes before its equals
RECURSIVE InsertByKeyUnstable(_, _)
InsertByKeyUnstable(sorted, x) ==
    IF sorted = <<>> THEN <<x>>
    ELSE IF x[1] <= sorted[Len(sorted)][1]
         THEN Append(InsertByKeyUnstable(SubSeq(sorted, 1, Len(sorted) - 1), x),
                     sorted[Len(sorted)])
         ELSE Append(sorted, x)

\* list.sort(key = x[0]): a stable insertion sort on the first component
RECURSIVE InsertByKey(_, _)
InsertByKey(sorted, x) ==
    IF sorted = <<>> THEN <<x>>
    ELSE IF x[1] < sorted[Len(sorted)][1]
         THEN Append(InsertByKey(SubSeq(sorted, 1, Len(sorted) - 1), x),
                     sorted[Len(sorted)])
         ELSE Append(sorted, x)

RECURSIVE SortByKey(_)
SortByKey(s) ==
    IF s = <<>> THEN <<>>
    ELSE InsertByKey(SortByKey(SubSeq(s, 1, Len(s) - 1)), s[Len(s)])

\* KnLoop with test (a) passing a pressure on the upper limit (<= for <)
RECURSIVE KnLoopInclusive(_, _, _, _)
KnLoopInclusive(ts, kn, i, tabPressures) ==
    IF i > Len(ts)
    THEN IF tabPressures = <<>>
         THEN [exc |-> "IndexError", val |-> 0, tab |-> 0]
         ELSE [exc |-> "none", val |-> SortByKey(tabPressures)[1][2], tab |-> 0]
    ELSE LET tab == ts[i]
             tabPressure == TabPressure(tab, kn)
             minTabPressure == tab.minPressure
             maxTabPressure == tab.maxPressure
             hit == [exc |-> "none", val |-> tabPressure, tab |-> i]
         IN  IF minTabPressure = getMinimumValidPressure(ts)
                /\ tabPressure <= maxTabPressure
             THEN hit
             ELSE IF maxTabPressure = getMaximumValidPressure(ts)
                     /\ minTabPressure < tabPressure
             THEN hit
             ELSE IF minTabPressure < tabPressure /\ tabPressure < maxTabPressure
             THEN hit
             ELSE KnLoopInclusive(ts, kn, i + 1,
                         Append(tabPressures,
                                <<IF Abs(minTabPressure - tabPressure)
                                       < Abs(tabPressure - maxTabPressure)
                                  THEN Abs(minTabPressure - tabPressure)
                                  ELSE Abs(tabPressure - maxTabPressure),
                                  tabPressure>>))

\* The loop over the tabs from tab i on, tabPressures being what was appended
\* so far.  Result: [exc, val, tab], tab the index of the tab whose test made
\* the loop return (0 when the sorted list decided).
RECURSIVE KnLoop(_, _, _, _)
KnLoop(ts, kn, i, tabPressures) ==
    IF i > Len(ts)
    THEN IF tabPressures = <<>>
         THEN [exc |-> "IndexError", val |-> 0, tab |-> 0]
         ELSE [exc |-> "none", val |-> SortByKey(tabPressures)[1][2], tab |-> 0]
    ELSE LET tab == ts[i]
             tabPressure == TabPressure(tab, kn)
             minTabPressure == tab.minPressure
             maxTabPressure == tab.maxPressure
             hit == [exc |-> "none", val |-> tabPressure, tab |-> i]
         IN  IF minTabPressure = getMinimumValidPressure(ts)
                /\ tabPressure < maxTabPressure
             THEN hit
             ELSE IF maxTabPressure = getMaximumValidPressure(ts)
                     /\ minTabPressure < tabPressure
             THEN hit
             ELSE IF minTabPressure < tabPressure /\ tabPressure < maxTabPressure
             THEN hit
             ELSE KnLoop(ts, kn, i + 1,
                         Append(tabPressures,
                                <<IF Abs(minTabPressure - tabPressure)
                                       < Abs(tabPressure - maxTabPressure)
                                  THEN Abs(minTabPressure - tabPressure)
                                  ELSE Abs(tabPressure - maxTabPressure),
                                  tabPressure>>))

getPressureFromKn(ts, kn) == KnLoop(ts, kn, 1, <<>>)

----------------------------------------------------------------------------
(* Propellant.getErrors, Propellant.getPressureErrors *)

SimAlert(level, text) ==
    [level |-> level, type |-> "VALUE", text |-> text, location |-> "Propellant"]

\* OverlapAlerts with tab.maxPressure <= otherTab.maxPressure
RECURSIVE OverlapAlertsInclusive(_, _, _)
OverlapAlertsInclusive(ts, tabId, otherTabId) ==
    IF otherTabId > Len(ts) THEN <<>>
    ELSE (IF tabId # otherTabId
             /\ ts[otherTabId].minPressure < ts[tabId].maxPressure
             /\ ts[tabId].maxPressure <= ts[otherTabId].maxPressure
          THEN <<SimAlert("ERROR", <<"overlapping ranges", tabId, otherTabId>>)>>
          ELSE <<>>)
         \o OverlapAlertsInclusive(ts, tabId, otherTabId + 1)

\* the inner loop over otherTab, from otherTabId on (ids count from 1 here,
\* as in the alert texts)
RECURSIVE OverlapAlerts(_, _, _)
OverlapAlerts(ts, tabId, otherTabId) ==
    IF otherTabId > Len(ts) THEN <<>>
    ELSE (IF tabId # otherTabId
             /\ ts[otherTabId].minPressure < ts[tabId].maxPressure
             /\ ts[tabId].maxPressure < ts[otherTabId].maxPressure
          THEN <<SimAlert("ERROR", <<"overlapping ranges", tabId, otherTabId>>)>>
          ELSE <<>>)
         \o OverlapAlerts(ts, tabId, otherTabId + 1)

RECURSIVE ErrorsFrom(_, _)
ErrorsFrom(ts, tabId) ==
    IF tabId > Len(ts) THEN <<>>
    ELSE (IF ts[tabId].maxPressure = ts[tabId].minPressure
          THEN <<SimAlert("ERROR", <<"same minimum and maximum", tabId, tabId>>)>>
          ELSE <<>>)
         \o (IF ts[tabId].maxPressure < ts[tabId].minPressure
             THEN <<SimAlert("ERROR", <<"reversed pressure limits", tabId, tabId>>)>>
             ELSE <<>>)
         \o OverlapAlerts(ts, tabId, 1)
         \o ErrorsFrom(ts, tabId + 1)

getErrors(ts) == ErrorsFrom(ts, 1)

\* PressureErrorsLoop with the closed interval min <= pressure <= max
RECURSIVE PressureErrorsLoopClosed(_, _, _)
PressureErrorsLoopClosed(ts, pressure, i) ==
    IF i > Len(ts)
    THEN <<SimAlert("WARNING", <<"pressure deviated", 0, 0>>)>>
    ELSE IF ts[i].minPressure <= pressure /\ pressure <= ts[i].maxPressure
         THEN <<>>
         ELSE PressureErrorsLoopClosed(ts, pressure, i + 1)

\* the loop of getPressureErrors from tab i on; errors is empty throughout it
RECURSIVE PressureErrorsLoop(_, _, _)
PressureErrorsLoop(ts, pressure, i) ==
    IF i > Len(ts)
    THEN <<SimAlert("WARNING", <<"pressure deviated", 0, 0>>)>>
    ELSE IF ts[i].minPressure < pressure /\ pressure < ts[i].maxPressure
         THEN <<>>
         ELSE PressureErrorsLoop(ts, pressure, i + 1)

getPressureErrors(ts, pressure) == PressureErrorsLoop(ts, pressure, 1)

----------------------------------------------------------------------------
(* The propellant as a state machine: tabs are appended, and the queries   *)
(* are called on whatever tab list there is.                               *)

NoImage == [shape |-> <<>>, pix |-> <<>>]

InitPropellant ==
    /\ tabs = <<>>
    /\ image = NoImage
    /\ op = "none"
    /\ arg = 0
    /\ ret = Ok(0)

addTab(tab) ==
    /\ Len(tabs) < MaxTabs
    /\ tabs' = Append(tabs, tab)
    /\ op' = "addTab"
    /\ arg' = 0
    /\ ret' = Ok(0)
    /\ UNCHANGED image

CallGetCombustionProperties(pressure) ==
    /\ op' = "getCombustionProperties"
    /\ arg' = pressure
    /\ ret' = getCombustionProperties(tabs, pressure)
    /\ UNCHANGED <<tabs, image>>

CallGetBurnRate(pressure) ==
    /\ op' = "getBurnRate"
    /\ arg' = pressure
    /\ ret' = getBurnRate(tabs, pressure)
    /\ UNCHANGED <<tabs, image>>

CallGetPressureFromKn(kn) ==
    /\ op' = "getPressureFromKn"
    /\ arg' = kn
    /\ ret' = [exc |-> getPressureFromKn(tabs, kn).exc,
               val |-> getPressureFromKn(tabs, kn).val]
    /\ UNCHANGED <<tabs, image>>

CallGetErrors ==
    /\ op' = "getErrors"
    /\ arg' = 0
    /\ ret' = Ok(getErrors(tabs))
    /\ UNCHANGED <<tabs, image>>

CallGetPressureErrors(pressure) ==
    /\ op' = "getPressureErrors"
    /\ arg' = pressure
    /\ ret' = Ok(getPressureErrors(tabs, pressure))
    /\ UNCHANGED <<tabs, image>>

\* Tab selection and validation
NextTabs ==
    \/ \E tab \in PropellantTab(UnitCoefficient) : addTab(tab)
    \/ \E pressure \in QueryPressures : CallGetCombustionProperties(pressure)
    \/ \E pressure \in QueryPressures : CallGetBurnRate(pressure)
    \/ CallGetErrors
    \/ \E pressure \in QueryPressures : CallGetPressureErrors(pressure)

SpecTabs == InitPropellant /\ [][NextTabs]_vars

\* The pressure a KN settles at
NextKn ==
    \/ \E tab \in PropellantTab(BurnCoefficients) : addTab(tab)
    \/ \E kn \in 0..MaxKn : CallGetPressureFromKn(kn)

SpecKn == InitPropellant /\ [][NextKn]_vars

----------------------------------------------------------------------------
(* find_perimeter: the raster, the level, and lengths                      *)
(*                                                                         *)
(* Raster values and levels are multiples of 1 / Scale: the integer v      *)
(* stands for v / Scale, so Scale is 1.0 and Half is 0.5.  Coordinates are *)
(* multiples of 1 / Den, Den being a common multiple of every difference   *)
(* of two values, so that every interpolated crossing is exact.            *)

\* the value grid has 2 * Half steps between 0.0 and 1.0
Half == 3
\* rasters have at most MaxDim rows and at most MaxDim columns
MaxDim == 3
\* arrays have rank 0..MaxRank
MaxRank == 3
\* rasters larger than 2x2 are zeros with at most MaxOnes elements set to 1.0
MaxOnes == 2

Scale == 2 * Half

RECURSIVE Gcd(_, _)
Gcd(x, y) == IF y = 0 THEN x ELSE Gcd(y, x % y)
RECURSIVE LcmUpTo(_)
LcmUpTo(n) == IF n <= 1 THEN 1 ELSE (LcmUpTo(n - 1) * n) \div Gcd(LcmUpTo(n - 1), n)
Den == LcmUpTo(Scale)

Cells(h, w) == (0..(h - 1)) \X (0..(w - 1))

\* The arrays find_perimeter is called with.  An array that the validation
\* turns away is given by its shape alone.
Shapes == UNION {[1..n -> 0..MaxDim] : n \in 0..MaxRank}
IsRaster(shape) == Len(shape) = 2 /\ shape[1] >= 2 /\ shape[2] >= 2

Rasters(h, w) ==
    IF h = 2 /\ w = 2
    THEN [Cells(h, w) -> 0..Scale]
    ELSE {[p \in Cells(h, w) |-> IF p \in ones THEN Scale ELSE 0] :
              ones \in {x \in SUBSET Cells(h, w) : Cardinality(x) <= MaxOnes}}

Images ==
    {[shape |-> sh, pix |-> <<>>] : sh \in {x \in Shapes : ~IsRaster(x)}}
    \cup UNION {{[shape |-> sh, pix |-> px] : px \in Rasters(sh[1], sh[2])} :
                    sh \in {x \in Shapes : IsRaster(x)}}

Levels == 0..Scale

----------------------------------------------------------------------------
(* ContourTracer and PerimeterAccumulator (_find_perimeter_cy._get_perimeter) *)

\* The crossing of the level on an edge, as the fraction (in 1 / Den) of the
\* way from the edge's start to its end; the midpoint when both ends are equal.
EdgeFraction(vStart, vEnd, level) ==
    IF vStart = vEnd THEN Den \div 2
    ELSE IF vEnd > vStart
         THEN ((level - vStart) * Den) \div (vEnd - vStart)
         ELSE ((vStart - level) * Den) \div (vStart - vEnd)

\* a corner is above the level when its value exceeds it
Above(v, level) == v > level

\* The segments of the cell whose upper left corner is <<r0, c0>>: the
\* marching-squares table, indexed by the pattern of corners above the level.
CellSegments(pix, r0, c0, level) ==
    LET ul == pix[<<r0, c0>>]
        ur == pix[<<r0, c0 + 1>>]
        ll == pix[<<r0 + 1, c0>>]
        lr == pix[<<r0 + 1, c0 + 1>>]
        squareCase == (IF Above(ul, level) THEN 1 ELSE 0)
                      + (IF Above(ur, level) THEN 2 ELSE 0)
                      + (IF Above(ll, level) THEN 4 ELSE 0)
                      + (IF Above(lr, level) THEN 8 ELSE 0)
        top == <<r0 * Den, c0 * Den + EdgeFraction(ul, ur, level)>>
        bottom == <<(r0 + 1) * Den, c0 * Den + EdgeFraction(ll, lr, level)>>
        left == <<r0 * Den + EdgeFraction(ul, ll, level), c0 * Den>>
        right == <<r0 * Den + EdgeFraction(ur, lr, level), (c0 + 1) * Den>>
        \* a saddle: the cell's centre is high when the average of its corners
        \* exceeds the level
        centreHigh == ul + ur + ll + lr > 4 * level
    IN  CASE squareCase = 0 -> <<>>
          [] squareCase = 1 -> <<<<top, left>>>>
          [] squareCase = 2 -> <<<<right, top>>>>
          [] squareCase = 3 -> <<<<right, left>>>>
          [] squareCase = 4 -> <<<<left, bottom>>>>
          [] squareCase = 5 -> <<<<top, bottom>>>>
          [] squareCase = 6 -> IF centreHigh
                               THEN <<<<left, top>>, <<right, bottom>>>>
                               ELSE <<<<right, top>>, <<left, bottom>>>>
          [] squareCase = 7 -> <<<<right, bottom>>>>
          [] squareCase = 8 -> <<<<bottom, right>>>>
          [] squareCase = 9 -> IF centreHigh
                               THEN <<<<top, right>>, <<bottom, left>>>>
                               ELSE <<<<top, left>>, <<bottom, right>>>>
          [] squareCase = 10 -> <<<<bottom, top>>>>
          [] squareCase = 11 -> <<<<bottom, left>>>>
          [] squareCase = 12 -> <<<<left, right>>>>
          [] squareCase = 13 -> <<<<top, right>>>>
          [] squareCase = 14 -> <<<<left, top>>>>
          [] OTHER -> <<>>

\* the segments of the cells from cell k on, in row-major order
RECURSIVE SegmentsFrom(_, _, _, _, _)
SegmentsFrom(pix, h, w, level, k) ==
    IF k >= (h - 1) * (w - 1) THEN <<>>
    ELSE CellSegments(pix, k \div (w - 1), k % (w - 1), level)
         \o SegmentsFrom(pix, h, w, level, k + 1)

ContourSegments(pix, h, w, level) == SegmentsFrom(pix, h, w, level, 0)

\* A length is kept exactly, as the sum of the square roots of squared
\* lengths (in 1 / Den^2): a bag of squared lengths.  A segment of length 0
\* adds nothing.
SquaredLength(seg) ==
    (seg[1][1] - seg[2][1]) * (seg[1][1] - seg[2][1])
    + (seg[1][2] - seg[2][2]) * (seg[1][2] - seg[2][2])

AddLength(total, sq) ==
    IF sq = 0 THEN total
    ELSE IF sq \in DOMAIN total THEN [total EXCEPT ![sq] = @ + 1]
    ELSE [x \in DOMAIN total \cup {sq} |-> IF x = sq THEN 1 ELSE total[x]]

RECURSIVE SumLengths(_, _, _)
SumLengths(segs, i, total) ==
    IF i > Len(segs) THEN total
    ELSE SumLengths(segs, i + 1, AddLength(total, SquaredLength(segs[i])))

ZeroLength == [x \in {} |-> 0]

_get_perimeter(img, level) ==
    SumLengths(ContourSegments(img.pix, img.shape[1], img.shape[2], level), 1, ZeroLength)

----------------------------------------------------------------------------
(* find_perimeter *)

ShapeError == "ValueError: Input array must be at least 2x2."
DimensionError == "ValueError: Only 2D arrays are supported."

\* find_perimeter turning away every raster with a side of 2 (<= for <)
find_perimeterAtLeast3(img, level) ==
    IF Len(img.shape) < 1 THEN Raise("IndexError")
    ELSE IF img.shape[1] <= 2 THEN Raise(ShapeError)
    ELSE IF Len(img.shape) < 2 THEN Raise("IndexError")
    ELSE IF img.shape[2] <= 2 THEN Raise(ShapeError)
    ELSE IF Len(img.shape) # 2 THEN Raise(DimensionError)
    ELSE Ok(_get_perimeter(img, level))

\* find_perimeter with int(level) for float(level): the level is cut down to
\* a whole number
find_perimeterIntLevel(img, level) ==
    IF Len(img.shape) < 1 THEN Raise("IndexError")
    ELSE IF img.shape[1] < 2 THEN Raise(ShapeError)
    ELSE IF Len(img.shape) < 2 THEN Raise("IndexError")
    ELSE IF img.shape[2] < 2 THEN Raise(ShapeError)
    ELSE IF Len(img.shape) # 2 THEN Raise(DimensionError)
    ELSE Ok(_get_perimeter(img, level - (level % Scale)))

\* image.shape[i] of a shape too short to have it raises IndexError; "or"
\* does not evaluate its second operand when the first holds.  float(level)
\* leaves a level of the value grid as it is.
find_perimeter(img, level) ==
    IF Len(img.shape) < 1 THEN Raise("IndexError")
    ELSE IF img.shape[1] < 2 THEN Raise(ShapeError)
    ELSE IF Len(img.shape) < 2 THEN Raise("IndexError")
    ELSE IF img.shape[2] < 2 THEN Raise(ShapeError)
    ELSE IF Len(img.shape) # 2 THEN Raise(DimensionError)
    ELSE Ok(_get_perimeter(img, level))

\* The stepping loop holds one raster and asks for its perimeter at one level
\* after another.
InitPerimeter ==
    /\ tabs = <<>>
    /\ image \in Images
    /\ op = "none"
    /\ arg = 0
    /\ ret = Ok(0)

CallFindPerimeter(level) ==
    /\ op' = "find_perimeter"
    /\ arg' = level
    /\ ret' = find_perimeter(image, level)
    /\ UNCHANGED <<tabs, image>>

NextPerimeter == \E level \in Levels : CallFindPerimeter(level)

SpecPerimeter == InitPerimeter /\ [][NextPerimeter]_vars

----------------------------------------------------------------------------
(* Properties of tab selection *)

StrictlyInside(tab, p) == tab.minPressure < p /\ p < tab.maxPressure
InHalfOpenWindow(tab, p) == tab.minPressure <= p /\ p < tab.maxPressure

\* min(|p - minPressure|, |p - maxPressure|)
BoundaryDistance(tab, p) ==
    IF Abs(p - tab.minPressure) < Abs(p - tab.maxPressure)
    THEN Abs(p - tab.minPressure)
    ELSE Abs(p - tab.maxPressure)

\* a burn rate or combustion property query has returned
Selected ==
    /\ op \in {"getCombustionProperties", "getBurnRate"}
    /\ ret.exc = "none"

\* two tabs [A,B], [B,C] stored in that order, queried at B
AdjacentQueriedAtB ==
    /\ Len(tabs) = 2
    /\ tabs[1].minPressure < tabs[1].maxPressure
    /\ tabs[1].maxPressure = tabs[2].minPressure
    /\ tabs[2].minPressure < tabs[2].maxPressure
    /\ arg = tabs[1].maxPressure

\* C1 as stated: when the pressure lies in some tab's half-open window
\* [minPressure, maxPressure), the tab used is one whose half-open window
\* holds the pressure; for adjacent tabs [A,B], [B,C] a query at B uses [B,C].
C1_HalfOpenWindow ==
    Selected =>
        /\ (\E i \in DOMAIN tabs : InHalfOpenWindow(tabs[i], arg))
               => InHalfOpenWindow(tabs[ret.val.tab], arg)
        /\ AdjacentQueriedAtB => ret.val.tab = 2

\* C1 amended: when the pressure lies strictly inside some tab's window
\* (minPressure < p < maxPressure), the first such tab in stored order is the
\* one used; for the two adjacent tabs [A,B], [B,C] a query at B uses [A,B].
C1_OpenWindow ==
    Selected =>
        /\ \A i \in DOMAIN tabs :
               (/\ StrictlyInside(tabs[i], arg)
                /\ \A j \in 1..(i - 1) : ~StrictlyInside(tabs[j], arg))
               => (/\ ret.val.tab = i
                   /\ op = "getCombustionProperties" => ret.val.a = tabs[i].a
                   /\ op = "getBurnRate" => ret.val.rate = tabs[i].a)
        /\ AdjacentQueriedAtB => ret.val.tab = 1

\* the second tab is used because the pressure is strictly inside it only
C1_Witness ==
    /\ Selected
    /\ Len(tabs) = 2
    /\ \A i \in DOMAIN tabs : tabs[i].minPressure < tabs[i].maxPressure
    /\ tabs[1].minPressure = arg
    /\ StrictlyInside(tabs[2], arg)
    /\ ret.val.tab = 2

\* C6: a pressure inside no tab's window is served by a tab of least
\* distance min(|p - minPressure|, |p - maxPressure|), and among the tabs of
\* least distance by the one stored first.
C6_NearestBoundaryFirst ==
    (Selected /\ \A i \in DOMAIN tabs : ~StrictlyInside(tabs[i], arg)) =>
        LET s == ret.val.tab
        IN  /\ s \in DOMAIN tabs
            /\ \A j \in DOMAIN tabs :
                   BoundaryDistance(tabs[s], arg) <= BoundaryDistance(tabs[j], arg)
            /\ \A j \in 1..(s - 1) :
                   BoundaryDistance(tabs[s], arg) < BoundaryDistance(tabs[j], arg)

\* two different tabs at the same distance from the pressure: the first is used
C6_Witness ==
    /\ Selected
    /\ Len(tabs) = 2
    /\ \A i \in DOMAIN tabs : tabs[i].minPressure < tabs[i].maxPressure
    /\ \A i \in DOMAIN tabs : ~InHalfOpenWindow(tabs[i], arg)
    /\ tabs[1] # tabs[2]
    /\ BoundaryDistance(tabs[1], arg) = BoundaryDistance(tabs[2], arg)
    /\ BoundaryDistance(tabs[1], arg) > 0
    /\ ret.val.tab = 1

----------------------------------------------------------------------------
(* Properties of the validation *)

\* C7: getPressureErrors returns one warning exactly when the pressure is
\* outside every tab's open interval, and nothing otherwise; never more than
\* one alert; with no tab, the one warning.
C7_PressureWarning ==
    op = "getPressureErrors" =>
        /\ Len(ret.val) <= 1
        /\ Len(ret.val) = 1 <=> \A i \in DOMAIN tabs : ~StrictlyInside(tabs[i], arg)
        /\ \A k \in DOMAIN ret.val : ret.val[k].level = "WARNING"
        /\ tabs = <<>> => Len(ret.val) = 1

\* a pressure on a tab's lower limit is outside its open interval: a warning
C7_Witness ==
    /\ op = "getPressureErrors"
    /\ Len(tabs) = 2
    /\ tabs[2].minPressure < tabs[2].maxPressure
    /\ arg = tabs[2].minPressure
    /\ Len(ret.val) = 1

SameLimits(ts) == {<<"same minimum and maximum", i, i>> :
                      i \in {x \in DOMAIN ts : ts[x].maxPressure = ts[x].minPressure}}
ReversedLimits(ts) == {<<"reversed pressure limits", i, i>> :
                          i \in {x \in DOMAIN ts : ts[x].maxPressure < ts[x].minPressure}}
OverlappingPairs(ts) ==
    {<<"overlapping ranges", pr[1], pr[2]>> :
        pr \in {x \in (DOMAIN ts) \X (DOMAIN ts) :
                   /\ x[1] # x[2]
                   /\ ts[x[2]].minPressure < ts[x[1]].maxPressure
                   /\ ts[x[1]].maxPressure < ts[x[2]].maxPressure}}

Windows(ts) == [i \in DOMAIN ts |-> <<ts[i].minPressure, ts[i].maxPressure>>]

\* C3: getErrors returns exactly one alert for each tab with equal limits,
\* one for each tab with reversed limits and one for each ordered pair of
\* distinct tabs with otherTab.minPressure < tab.maxPressure <
\* otherTab.maxPressure: [0,100], [50,150] give one alert (overlap),
\* [100,100] gives one (degenerate), [100,50] gives one (reversed).
C3_ExactAlerts ==
    op = "getErrors" =>
        LET expected == SameLimits(tabs) \cup ReversedLimits(tabs)
                            \cup OverlappingPairs(tabs)
            texts == {ret.val[k].text : k \in DOMAIN ret.val}
        IN  /\ texts = expected
            /\ Len(ret.val) = Cardinality(expected)
            /\ \A k \in DOMAIN ret.val : ret.val[k].level = "ERROR"
            /\ Windows(tabs) = <<<<0, 2>>, <<1, 3>>>>
                   => Len(ret.val) = 1 /\ ret.val[1].text[1] = "overlapping ranges"
            /\ Windows(tabs) = <<<<2, 2>>>>
                   => Len(ret.val) = 1 /\ ret.val[1].text[1] = "same minimum and maximum"
            /\ Windows(tabs) = <<<<2, 1>>>>
                   => Len(ret.val) = 1 /\ ret.val[1].text[1] = "reversed pressure limits"

\* the tabs [0,100] and [50,150]: the one overlap alert, of tab 1 with tab 2
C3_Witness ==
    /\ op = "getErrors"
    /\ Windows(tabs) = <<<<0, 2>>, <<1, 3>>>>
    /\ Len(ret.val) = 1
    /\ ret.val[1].text = <<"overlapping ranges", 1, 2>>

Larger(x, y) == IF x > y THEN x ELSE y
Smaller(x, y) == IF x < y THEN x ELSE y
\* the two pressure ranges have an interior point in common
ShareInterior(t, u) ==
    Larger(t.minPressure, u.minPressure) < Smaller(t.maxPressure, u.maxPressure)

\* C4: when getErrors returns no alert, every tab has minPressure <
\* maxPressure and no two distinct tabs have ranges that share an interior
\* point.
C4_NoAlertMeansNoOverlap ==
    (op = "getErrors" /\ ret.val = <<>>) =>
        /\ \A i \in DOMAIN tabs : tabs[i].minPressure < tabs[i].maxPressure
        /\ \A i, j \in DOMAIN tabs : i # j => ~ShareInterior(tabs[i], tabs[j])

----------------------------------------------------------------------------
(* Properties of getPressureFromKn *)

OwnsMinimum(ts, i) == \A j \in DOMAIN ts : ts[i].minPressure <= ts[j].minPressure
OwnsMaximum(ts, i) == \A j \in DOMAIN ts : ts[i].maxPressure >= ts[j].maxPressure

\* tab i passes test (a), (b) or (c) with its own pressure
Accepts(ts, kn, i) ==
    LET P == TabPressure(ts[i], kn)
    IN  \/ OwnsMinimum(ts, i) /\ P < ts[i].maxPressure
        \/ OwnsMaximum(ts, i) /\ ts[i].minPressure < P
        \/ ts[i].minPressure < P /\ P < ts[i].maxPressure

OwnDistance(ts, kn, i) == BoundaryDistance(ts[i], TabPressure(ts[i], kn))

WellFormed(ts) ==
    /\ \A i \in DOMAIN ts : ts[i].minPressure < ts[i].maxPressure
    /\ \A i, j \in DOMAIN ts :
           i # j => (ts[i].maxPressure <= ts[j].minPressure
                     \/ ts[j].maxPressure <= ts[i].minPressure)

----------------------------------------------------------------------------
(* Properties of find_perimeter *)

\* C5: the validation fails with the dimension error whenever the rank is
\* not 2, with the shape error when one of the two dimensions is below 2, in
\* no other way, and only a rank-2 array of at least 2x2 reaches the tracer.
C5_Validation ==
    op = "find_perimeter" =>
        /\ Len(image.shape) # 2 => ret.exc = DimensionError
        /\ (Len(image.shape) = 2 /\ (image.shape[1] < 2 \/ image.shape[2] < 2))
               => ret.exc = ShapeError
        /\ ret.exc = "none" <=> IsRaster(image.shape)
        /\ ret.exc \in {"none", ShapeError, DimensionError}

\* Two lengths are equal as real numbers.  A squared length n is k * k * s
\* with s square-free, its root k * sqrt(s); the square roots of different
\* square-free numbers are linearly independent over the rationals, so two
\* sums are equal exactly when each sqrt(s) has the same coefficient in both.
SquarePart(n) ==
    CHOOSE k \in 1..(2 * Den) :
        /\ n % (k * k) = 0
        /\ \A j \in (k + 1)..(2 * Den) : n % (j * j) # 0
SquareFreePart(n) == n \div (SquarePart(n) * SquarePart(n))

RECURSIVE SumOver(_, _)
SumOver(set, f) ==
    IF set = {} THEN 0
    ELSE LET x == CHOOSE y \in set : TRUE
         IN  SquarePart(x) * f[x] + SumOver(set \ {x}, f)

RootSum(total) ==
    [s \in {SquareFreePart(n) : n \in DOMAIN total} |->
        SumOver({n \in DOMAIN total : SquareFreePart(n) = s}, total)]

SameLength(t1, t2) == t1 = t2 \/ RootSum(t1) = RootSum(t2)

\* the raster 1 - r
Complement(img) ==
    [shape |-> img.shape, pix |-> [p \in DOMAIN img.pix |-> Scale - img.pix[p]]]

\* find_perimeter has returned a perimeter
Measured == op = "find_perimeter" /\ ret.exc = "none"

\* C8 as stated: the perimeter of a raster at a level is the perimeter of
\* the complemented raster at the complemented level, for every raster with
\* values in [0, 1] and every level.
C8_ComplementInvariant ==
    Measured =>
        SameLength(ret.val, find_perimeter(Complement(image), Scale - arg).val)

SaddleCell(pix, r0, c0, level) ==
    LET ul == Above(pix[<<r0, c0>>], level)
        ur == Above(pix[<<r0, c0 + 1>>], level)
        ll == Above(pix[<<r0 + 1, c0>>], level)
        lr == Above(pix[<<r0 + 1, c0 + 1>>], level)
    IN  (ul /\ lr /\ ~ur /\ ~ll) \/ (ur /\ ll /\ ~ul /\ ~lr)

CornerSum(pix, r0, c0) ==
    pix[<<r0, c0>>] + pix[<<r0, c0 + 1>>] + pix[<<r0 + 1, c0>>]
    + pix[<<r0 + 1, c0 + 1>>]

\* no element equals the level, and no saddle cell's corners average to it
NoTie(img, level) ==
    /\ \A p \in DOMAIN img.pix : img.pix[p] # level
    /\ \A r0 \in 0..(img.shape[1] - 2), c0 \in 0..(img.shape[2] - 2) :
           SaddleCell(img.pix, r0, c0, level)
               => CornerSum(img.pix, r0, c0) # 4 * level

\* C8 amended: the perimeter of a raster at a level is the perimeter of the
\* complemented raster at the complemented level, for every raster in which
\* no element equals the level and no saddle cell's corner average equals it.
C8_ComplementInvariantNoTie ==
    (Measured /\ NoTie(image, arg)) =>
        SameLength(ret.val, find_perimeter(Complement(image), Scale - arg).val)

\* a saddle cell of four different values, none on the level, with crossings
\* off the midpoints
C8_Witness ==
    /\ Measured
    /\ NoTie(image, arg)
    /\ image.shape = <<2, 2>>
    /\ SaddleCell(image.pix, 0, 0, arg)
    /\ Cardinality({image.pix[p] : p \in DOMAIN image.pix}) = 4
    /\ arg # Half
    /\ Len(ContourSegments(image.pix, 2, 2, arg)) = 2
    /\ ret.val # ZeroLength
    /\ ret.val = find_perimeter(Complement(image), Scale - arg).val

\* the corners of a raster, and the rasters of zeros with one corner at 1.0
Corners(img) ==
    {0, img.shape[1] - 1} \X {0, img.shape[2] - 1}
OneCornerSet(img, corner) ==
    /\ IsRaster(img.shape)
    /\ corner \in Corners(img)
    /\ \A p \in DOMAIN img.pix : img.pix[p] = (IF p = corner THEN Scale ELSE 0)

\* the midpoints of the two grid edges that meet at the corner
EdgeMidpoints(corner) ==
    {<<corner[1] * Den,
       corner[2] * Den + (IF corner[2] = 0 THEN Den \div 2 ELSE -(Den \div 2))>>,
     <<corner[1] * Den + (IF corner[1] = 0 THEN Den \div 2 ELSE -(Den \div 2)),
       corner[2] * Den>>}

\* sqrt(2) / 2: one root, of the squared length 2 * (1/2)^2
HalfSqrt2 == [x \in {2 * (Den \div 2) * (Den \div 2)} |-> 1]

\* C9: on a raster of zeros with one corner at 1.0, find_perimeter at level
\* 0.5 returns sqrt(2) / 2, the length of the one segment there is, which
\* joins the midpoints of the two grid edges at that corner.
C9_OneCorner ==
    \A corner \in (IF IsRaster(image.shape) THEN Corners(image) ELSE {}) :
        (op = "find_perimeter" /\ arg = Half /\ OneCornerSet(image, corner)) =>
            /\ ret.exc = "none"
            /\ ret.val = HalfSqrt2
            /\ RootSum(ret.val) = [s \in {2} |-> Den \div 2]
            /\ LET segs == ContourSegments(image.pix, image.shape[1],
                                           image.shape[2], arg)
               IN  /\ Len(segs) = 1
                   /\ {segs[1][1], segs[1][2]} = EdgeMidpoints(corner)

\* the lower right corner of a raster of several cells, two rows of them
C9_Witness ==
    /\ op = "find_perimeter"
    /\ arg = Half
    /\ image.shape = <<MaxDim, 2>>
    /\ OneCornerSet(image, <<MaxDim - 1, 1>>)
    /\ ret.val = HalfSqrt2

=============================================================================
